---- MODULE Spec2Model ----
(***************************************************************************)
(* A model of the mulib run-to-completion scheduler (core/mu_sched.c) and  *)
(* of the modules it is built on: the intrusive doubly linked list         *)
(* (mu_dlist), the task (mu_task), the timestamp (mu_time) and the         *)
(* single-producer / single-consumer interrupt queue (mu_spsc).            *)
(***************************************************************************)
EXTENDS Integers, Sequences, FiniteSets, TLC

VARIABLES
  links,         \* [Node -> [prev, next]]: the mu_dlist_t of every task and of s_sched.task_list
  time,          \* [TaskAll -> Time]: mu_task_t.time, the fire-time of every task
  clock,         \* the value s_sched.clock_fn() returns
  current_task,  \* s_sched.current_task
  irq,           \* s_sched.irq_task_queue and its store: [store, putr, getr]
  pc,            \* "fg": no step in progress; "task": mu_sched_step is inside mu_task_call;
                 \* "abort" / "undef": the outcomes of a null-pointer dereference
  ret,           \* the value returned by the latest completed call
  calls,         \* how many calls of the scheduler's functions were made so far
  spsc,          \* a mu_spsc_put and a mu_spsc_get in progress on irq, and what they have transferred
  bvec           \* a bit vector, its bit count and the counts computed on it

vars == <<links, time, clock, current_task, irq, pc, ret, calls, spsc, bvec>>

----------------------------------------------------------------------------
\* Bounds of the model

\* number of bits of mu_time_t (the comparison window is half of 2^TimeBits)
TimeBits == 3

\* how many times the clock may advance in one behaviour
MaxTicks == 1

\* a fire-time or an interval given to a scheduling call is at most MaxAhead
\* after the current time
MaxAhead == 2

\* how many calls the application and its interrupt handlers make in one
\* behaviour
MaxCalls == 6

\* number of slots of the interrupt queue (one is kept free: capacity - 1 are usable)
MU_IRQ_TASK_QUEUE_SIZE == 3

\* number of bytes of the bit vectors
MaxBytes == 2

\* how many scheduling calls the application and its interrupt handlers make
\* while a task waits for its turn (steps, and the rescheduling of a task that
\* keeps rescheduling itself, are not limited)
MaxLiveCalls == 4

\* width of size_t in bits
SizeBits == 16

----------------------------------------------------------------------------
\* Objects

NULL == "NULL"

\* the list head s_sched.task_list
task_list == "task_list"

\* s_default_idle_task, which is also s_sched.idle_task
s_default_idle_task == "Idle"

idle_task == s_default_idle_task

\* the tasks the application owns
Tasks == {"A", "B", "C"}

\* the tasks that interrupt handlers schedule
IsrTasks == {"B", "C"}

TaskAll == Tasks \cup {s_default_idle_task}

Node == TaskAll \cup {task_list}

MU_SCHED_ERR_NONE == "MU_SCHED_ERR_NONE"

MU_SCHED_ERR_FULL == "MU_SCHED_ERR_FULL"

MU_SCHED_ERR_NOT_FOUND == "MU_SCHED_ERR_NOT_FOUND"

MU_SCHED_TASK_STATUS_IDLE == "MU_SCHED_TASK_STATUS_IDLE"

MU_SCHED_TASK_STATUS_SCHEDULED == "MU_SCHED_TASK_STATUS_SCHEDULED"

MU_SCHED_TASK_STATUS_RUNNABLE == "MU_SCHED_TASK_STATUS_RUNNABLE"

MU_SCHED_TASK_STATUS_ACTIVE == "MU_SCHED_TASK_STATUS_ACTIVE"

MU_SPSC_ERR_NONE == "MU_SPSC_ERR_NONE"

MU_SPSC_ERR_EMPTY == "MU_SPSC_ERR_EMPTY"

MU_SPSC_ERR_FULL == "MU_SPSC_ERR_FULL"

----------------------------------------------------------------------------
\* mu_time: timestamps of TimeBits bits, compared over a rolling window

TimeMod == 2 ^ TimeBits

Time == 0 .. (TimeMod - 1)

\* a TimeBits-bit value read as a two's complement signed number
AsSigned(x) == IF x >= TimeMod \div 2 THEN x - TimeMod ELSE x

\* t1 - t2 as a signed duration
mu_time_difference(t1, t2) == AsSigned((t1 - t2) % TimeMod)

\* "A precedes B": B - A interpreted as a signed value is positive
mu_time_precedes(t1, t2) == mu_time_difference(t2, t1) > 0

\* "A follows B" is "B precedes A"
mu_time_follows(t1, t2) == mu_time_precedes(t2, t1)

mu_time_offset(t, dt) == (t + dt) % TimeMod

----------------------------------------------------------------------------
\* mu_dlist: circular doubly linked list with a list head.  L is the map of
\* every node's prev and next fields.

Unlinked == [prev |-> NULL, next |-> NULL]

mu_dlist_init(L, list) == [L EXCEPT ![list] = [prev |-> list, next |-> list]]

mu_dlist_is_empty(L, list) == L[list].next = list

mu_dlist_first(L, list) ==
  LET first == L[list].next IN IF first = list THEN NULL ELSE first

mu_dlist_next(L, element) == L[element].next

RECURSIVE length_from(_, _, _, _)
length_from(L, list, e, fuel) ==
  IF L[e].next = list \/ fuel = 0 THEN 0
  ELSE 1 + length_from(L, list, L[e].next, fuel - 1)

mu_dlist_length(L, list) == length_from(L, list, list, Cardinality(Node))

\* mu_dlist_pop that leaves the next and prev fields of the removed element
\* as they were
mu_dlist_pop_keep_fields(L, list) ==
  IF L[list].next # list
  THEN LET element == L[list].next
           L1 == [L  EXCEPT ![L[element].next].prev = L[element].prev]
           L2 == [L1 EXCEPT ![list].next = L1[element].next]
       IN  IF L2[list].prev = element
           THEN [L2 EXCEPT ![list].prev = list]
           ELSE L2
  ELSE L

\* the list with its first element removed (the element is mu_dlist_first)
mu_dlist_pop(L, list) ==
  IF L[list].next # list
  THEN LET element == L[list].next
           L1 == [L  EXCEPT ![L[element].next].prev = L[element].prev]
           L2 == [L1 EXCEPT ![list].next = L1[element].next]
           L3 == [L2 EXCEPT ![element].next = NULL]
           L4 == [L3 EXCEPT ![element].prev = NULL]
       IN  IF L4[list].prev = element
           THEN [L4 EXCEPT ![list].prev = list]
           ELSE L4
  ELSE L

mu_dlist_last(L, list) ==
  LET last == L[list].prev IN IF last = list THEN NULL ELSE last

\* mu_dlist_push without the assignment list->next->prev = element
mu_dlist_push_no_back_link(L, list, element) ==
  LET L1 == [L  EXCEPT ![element].next = L[list].next]
      L3 == [L1 EXCEPT ![list].next = element]
      L4 == [L3 EXCEPT ![element].prev = list]
  IN  IF L4[list].prev = list
      THEN [L4 EXCEPT ![list].prev = element]
      ELSE L4

mu_dlist_push(L, list, element) ==
  LET L1 == [L  EXCEPT ![element].next = L[list].next]
      L2 == [L1 EXCEPT ![L1[list].next].prev = element]
      L3 == [L2 EXCEPT ![list].next = element]
      L4 == [L3 EXCEPT ![element].prev = list]
  IN  IF L4[list].prev = list
      THEN [L4 EXCEPT ![list].prev = element]
      ELSE L4

mu_dlist_lpush(L, list, element) ==
  LET L1 == [L  EXCEPT ![element].prev = L[list].prev]
      L2 == [L1 EXCEPT ![L1[list].prev].next = element]
      L3 == [L2 EXCEPT ![list].prev = element]
      L4 == [L3 EXCEPT ![element].next = list]
  IN  IF L4[list].next = list
      THEN [L4 EXCEPT ![list].next = element]
      ELSE L4

mu_dlist_lpop(L, list) ==
  IF L[list].prev # list
  THEN LET element == L[list].prev
           L1 == [L  EXCEPT ![L[element].prev].next = L[element].next]
           L2 == [L1 EXCEPT ![list].prev = L1[element].prev]
           L3 == [L2 EXCEPT ![element].next = NULL]
           L4 == [L3 EXCEPT ![element].prev = NULL]
       IN  IF L4[list].next = element
           THEN [L4 EXCEPT ![list].next = list]
           ELSE L4
  ELSE L

\* the local list head of mu_dlist_reverse
reversed == "reversed"

\* the while loop of mu_dlist_reverse
RECURSIVE reverse_loop(_, _, _)
reverse_loop(L, list, fuel) ==
  IF mu_dlist_is_empty(L, list) \/ fuel = 0 THEN L
  ELSE reverse_loop(mu_dlist_push(mu_dlist_pop(L, list), reversed, L[list].next),
                    list, fuel - 1)

mu_dlist_reverse(L, list) ==
  LET L0 == mu_dlist_init(L @@ (reversed :> Unlinked), reversed)
      L1 == reverse_loop(L0, list, Cardinality(DOMAIN L))
      L2 == IF ~mu_dlist_is_empty(L1, reversed)
            THEN LET M1 == [L1 EXCEPT ![list].next = L1[reversed].next]
                     M2 == [M1 EXCEPT ![list].prev = M1[reversed].prev]
                     M3 == [M2 EXCEPT ![M2[list].next].prev = list]
                 IN  [M3 EXCEPT ![M3[list].prev].next = list]
            ELSE L1
  IN  [n \in DOMAIN L |-> L2[n]]

mu_dlist_element_is_linked(L, element) == L[element].next # NULL

\* unlink(e): if e is linked, splice its neighbours together and clear its
\* fields; the result of the call is e if it was linked, NULL otherwise
mu_dlist_unlink_result(L, element) ==
  IF mu_dlist_element_is_linked(L, element) THEN element ELSE NULL

mu_dlist_unlink(L, element) ==
  IF mu_dlist_element_is_linked(L, element)
  THEN LET L1 == [L  EXCEPT ![L[element].next].prev = L[element].prev]
           L2 == [L1 EXCEPT ![L1[element].prev].next = L1[element].next]
       IN  [L2 EXCEPT ![element] = Unlinked]
  ELSE L

\* insert_before(anchor, e): splice e immediately before anchor
mu_dlist_insert_prev(L, anchor, element) ==
  LET before == L[anchor].prev
      L1 == [L  EXCEPT ![element] = [prev |-> before, next |-> anchor]]
      L2 == [L1 EXCEPT ![before].next = element]
  IN  [L2 EXCEPT ![anchor].prev = element]

\* the members of a list in order, following next from the head
RECURSIVE members_from(_, _, _, _)
members_from(L, list, e, fuel) ==
  IF e = list \/ e = NULL \/ fuel = 0 THEN <<>>
  ELSE <<e>> \o members_from(L, list, L[e].next, fuel - 1)

Members(L, list) == members_from(L, list, L[list].next, Cardinality(Node))

\* element is reached from the list head by following next
InList(L, list, element) ==
  \E i \in 1 .. Len(Members(L, list)) : Members(L, list)[i] = element

----------------------------------------------------------------------------
\* mu_spsc: ring of MU_IRQ_TASK_QUEUE_SIZE slots with a producer index (putr)
\* and a consumer index (getr)

Slots == 0 .. (MU_IRQ_TASK_QUEUE_SIZE - 1)

mu_spsc_init == [store |-> [i \in Slots |-> NULL], putr |-> 0, getr |-> 0]

mu_spsc_reset(q) == [q EXCEPT !.putr = 0, !.getr = 0]

mu_spsc_is_full(q) == (q.putr + 1) % MU_IRQ_TASK_QUEUE_SIZE = q.getr

mu_spsc_is_empty(q) == q.putr = q.getr

mu_spsc_put_result(q, item) ==
  IF mu_spsc_is_full(q) THEN MU_SPSC_ERR_FULL ELSE MU_SPSC_ERR_NONE

mu_spsc_put(q, item) ==
  IF mu_spsc_is_full(q) THEN q
  ELSE [q EXCEPT !.store[q.putr] = item,
                 !.putr = (q.putr + 1) % MU_IRQ_TASK_QUEUE_SIZE]

mu_spsc_get_result(q) ==
  IF mu_spsc_is_empty(q) THEN MU_SPSC_ERR_EMPTY ELSE MU_SPSC_ERR_NONE

mu_spsc_get_item(q) == q.store[q.getr]

mu_spsc_get(q) ==
  IF mu_spsc_is_empty(q) THEN q
  ELSE [q EXCEPT !.getr = (q.getr + 1) % MU_IRQ_TASK_QUEUE_SIZE]

\* the undrained entries of the ring, oldest first
RECURSIVE ring_from(_, _)
ring_from(q, i) ==
  IF i = q.putr THEN <<>>
  ELSE <<q.store[i]>> \o ring_from(q, (i + 1) % MU_IRQ_TASK_QUEUE_SIZE)

Ring(q) == ring_from(q, q.getr)

----------------------------------------------------------------------------
\* mu_task

mu_task_link(task) == task

mu_task_get_time(T, task) == T[task]

mu_task_set_time(T, task, t) == [T EXCEPT ![task] = t]

mu_task_is_scheduled(L, task) == L[mu_task_link(task)].next # NULL

----------------------------------------------------------------------------
\* mu_sched: the static functions.  L is the link map, T the fire-times.

\* MU_DLIST_CONTAINER(link, mu_task_t, link): the task a link is embedded in
MU_DLIST_CONTAINER(link) == link

peek_next_task(L) ==
  LET link == mu_dlist_first(L, task_list)
  IN  IF link # NULL THEN MU_DLIST_CONTAINER(link) ELSE NULL

\* get_runnable_task without the test of the task's time
get_runnable_task_untimed(L, T, n) ==
  LET task == peek_next_task(L)
  IN  IF task # NULL
      THEN [task |-> task, links |-> mu_dlist_pop(L, task_list)]
      ELSE [task |-> idle_task, links |-> L]

\* get_runnable_task popping a second task that is due as well
get_runnable_task_twice(L, T, n) ==
  LET task == peek_next_task(L)
  IN  IF task # NULL /\ ~mu_time_follows(mu_task_get_time(T, task), n)
      THEN LET L1   == mu_dlist_pop(L, task_list)
               more == peek_next_task(L1)
           IN  IF more # NULL /\ ~mu_time_follows(mu_task_get_time(T, more), n)
               THEN [task |-> task, links |-> mu_dlist_pop(L1, task_list)]
               ELSE [task |-> task, links |-> L1]
      ELSE [task |-> idle_task, links |-> L]

\* get_runnable_task comparing now with the task's time instead of the task's
\* time with now
get_runnable_task_reversed(L, T, n) ==
  LET task == peek_next_task(L)
  IN  IF task # NULL /\ ~mu_time_follows(n, mu_task_get_time(T, task))
      THEN [task |-> task, links |-> mu_dlist_pop(L, task_list)]
      ELSE [task |-> idle_task, links |-> L]

\* get_runnable_task that takes a task only when its time precedes now
get_runnable_task_strictly_due(L, T, n) ==
  LET task == peek_next_task(L)
  IN  IF task # NULL /\ mu_time_precedes(mu_task_get_time(T, task), n)
      THEN [task |-> task, links |-> mu_dlist_pop(L, task_list)]
      ELSE [task |-> idle_task, links |-> L]

\* get_runnable_task that leaves the task it returns in the list
get_runnable_task_no_pop(L, T, n) ==
  LET task == peek_next_task(L)
  IN  IF task # NULL /\ ~mu_time_follows(mu_task_get_time(T, task), n)
      THEN [task |-> task, links |-> L]
      ELSE [task |-> idle_task, links |-> L]

\* [task, links]: the task mu_sched_step is to call and the list afterwards
get_runnable_task(L, T, n) ==
  LET task == peek_next_task(L)
  IN  IF task # NULL /\ ~mu_time_follows(mu_task_get_time(T, task), n)
      THEN [task |-> task, links |-> mu_dlist_pop(L, task_list)]
      ELSE [task |-> idle_task, links |-> L]

\* the scan with the two times of the comparison exchanged
RECURSIVE scan_insertion_point_swapped(_, _, _, _, _, _)
scan_insertion_point_swapped(L, T, head, list, t, fuel) ==
  IF list = head \/ fuel = 0 THEN list
  ELSE IF mu_time_precedes(mu_task_get_time(T, MU_DLIST_CONTAINER(list)), t)
       THEN list
       ELSE scan_insertion_point_swapped(L, T, head, mu_dlist_next(L, list), t, fuel - 1)

\* the while loop of find_insertion_point
RECURSIVE scan_insertion_point(_, _, _, _, _, _)
scan_insertion_point(L, T, head, list, t, fuel) ==
  IF list = head \/ fuel = 0 THEN list
  ELSE IF mu_time_precedes(t, mu_task_get_time(T, MU_DLIST_CONTAINER(list)))
       THEN list
       ELSE scan_insertion_point(L, T, head, mu_dlist_next(L, list), t, fuel - 1)

find_insertion_point(L, T, head, t) ==
  IF mu_dlist_is_empty(L, head) THEN head
  ELSE scan_insertion_point(L, T, head, mu_dlist_next(L, head), t, Cardinality(Node))

\* the list elements the while loop of find_insertion_point examines, in the
\* order it examines them, the one it stops at included
RECURSIVE scan_insertion_path(_, _, _, _, _, _)
scan_insertion_path(L, T, head, list, t, fuel) ==
  IF list = head \/ fuel = 0 THEN <<>>
  ELSE IF mu_time_precedes(t, mu_task_get_time(T, MU_DLIST_CONTAINER(list)))
       THEN <<list>>
       ELSE <<list>> \o scan_insertion_path(L, T, head, mu_dlist_next(L, list), t, fuel - 1)

\* queue_task without the unlink of a task that is already scheduled
queue_task_no_unlink(L, T, task) ==
  LET t    == mu_task_get_time(T, task)
      list == find_insertion_point(L, T, task_list, t)
  IN  mu_dlist_insert_prev(L, list, mu_task_link(task))

queue_task(L, T, task) ==
  LET t    == mu_task_get_time(T, task)
      L1   == mu_dlist_unlink(L, mu_task_link(task))
      list == find_insertion_point(L1, T, task_list, t)
  IN  mu_dlist_insert_prev(L1, list, mu_task_link(task))

\* queue_isr_task that does not test what mu_spsc_put returns
queue_isr_task_result_unchecked(q, task) == MU_SCHED_ERR_NONE

queue_isr_task_result(q, task) ==
  IF mu_spsc_put_result(q, task) # MU_SPSC_ERR_NONE
  THEN MU_SCHED_ERR_FULL
  ELSE MU_SCHED_ERR_NONE

queue_isr_task(q, task) == mu_spsc_put(q, task)

\* the transfer of mu_sched_step taking the newest entry of the interrupt
\* queue first
RECURSIVE drain_irq_task_queue_newest_first(_, _, _)
drain_irq_task_queue_newest_first(L, T, q) ==
  IF mu_spsc_get_result(q) = MU_SPSC_ERR_NONE
  THEN LET newest == (q.putr + MU_IRQ_TASK_QUEUE_SIZE - 1) % MU_IRQ_TASK_QUEUE_SIZE
       IN  drain_irq_task_queue_newest_first(queue_task(L, T, q.store[newest]), T,
                                             [q EXCEPT !.putr = newest])
  ELSE [links |-> L, irq |-> [q EXCEPT !.getr = q.putr]]

\* the transfer of mu_sched_step placing each task by the current time
\* instead of the time the task holds
RECURSIVE drain_irq_task_queue_at_now(_, _, _)
drain_irq_task_queue_at_now(L, T, q) ==
  IF mu_spsc_get_result(q) = MU_SPSC_ERR_NONE
  THEN drain_irq_task_queue_at_now(
         queue_task(L, mu_task_set_time(T, mu_spsc_get_item(q), clock), mu_spsc_get_item(q)),
         T, mu_spsc_get(q))
  ELSE [links |-> L, irq |-> q]

\* the transfer of mu_sched_step with an if in the place of the while: at
\* most one entry is taken from the interrupt queue
drain_irq_task_queue_once(L, T, q) ==
  IF mu_spsc_get_result(q) = MU_SPSC_ERR_NONE
  THEN [links |-> queue_task(L, T, mu_spsc_get_item(q)), irq |-> mu_spsc_get(q)]
  ELSE [links |-> L, irq |-> q]

\* the while loop of mu_sched_step: [links, irq] once mu_spsc_get finds the
\* ring empty
RECURSIVE drain_irq_task_queue(_, _, _)
drain_irq_task_queue(L, T, q) ==
  IF mu_spsc_get_result(q) = MU_SPSC_ERR_NONE
  THEN drain_irq_task_queue(queue_task(L, T, mu_spsc_get_item(q)), T, mu_spsc_get(q))
  ELSE [links |-> L, irq |-> q]

\* the main queue, head first
Queue == Members(links, task_list)

----------------------------------------------------------------------------
\* The environment: the clock, and what the application passes to the calls

\* the clock starts one tick before the timestamp wraps to zero
ClockStart == TimeMod - 1

\* fire-times an application passes to mu_sched_task_at / mu_sched_isr_task_at
AtChoices == {mu_time_offset(clock, d) : d \in 0 .. MaxAhead}

\* intervals an application passes to the _in calls
Durations == 1 .. MaxAhead

\* foreground code runs either outside mu_sched_step or inside the callable of
\* an application task; default_idle_fn makes no call
CanCall ==
  /\ pc = "fg" \/ (pc = "task" /\ current_task \in Tasks)
  /\ calls < MaxCalls

\* an interrupt is taken anywhere in the foreground code
CanInterrupt == pc \in {"fg", "task"} /\ calls < MaxCalls

\* the clock source advances by one tick
Tick ==
  /\ pc = "fg"
  /\ (clock - ClockStart) % TimeMod < MaxTicks
  /\ clock' = mu_time_offset(clock, 1)
  /\ UNCHANGED <<spsc, bvec, links, time, current_task, irq, pc, ret, calls>>

----------------------------------------------------------------------------
\* mu_sched: the public functions

mu_sched_get_current_time == clock

mu_sched_get_current_task == current_task

mu_sched_task_count(L) == mu_dlist_length(L, task_list)

\* mu_sched_get_task_status testing the link before the current task
mu_sched_get_task_status_linked_first(task) ==
  IF mu_task_is_scheduled(links, task)
  THEN LET now == mu_sched_get_current_time
       IN  IF ~mu_time_follows(mu_task_get_time(time, task), now)
           THEN MU_SCHED_TASK_STATUS_RUNNABLE
           ELSE MU_SCHED_TASK_STATUS_SCHEDULED
  ELSE IF mu_sched_get_current_task = task
       THEN MU_SCHED_TASK_STATUS_ACTIVE
       ELSE MU_SCHED_TASK_STATUS_IDLE

mu_sched_get_task_status(task) ==
  IF mu_sched_get_current_task = task
  THEN MU_SCHED_TASK_STATUS_ACTIVE
  ELSE IF ~mu_task_is_scheduled(links, task)
       THEN MU_SCHED_TASK_STATUS_IDLE
       ELSE LET now == mu_sched_get_current_time
            IN  IF ~mu_time_follows(mu_task_get_time(time, task), now)
                THEN MU_SCHED_TASK_STATUS_RUNNABLE
                ELSE MU_SCHED_TASK_STATUS_SCHEDULED

\* "TODO: Implement me": calls user_fn on no task and returns NULL
mu_sched_traverse(user_fn, arg) == NULL

mu_sched_is_empty(L) == mu_dlist_is_empty(L, task_list)

mu_sched_get_next_task(L) == peek_next_task(L)

\* no mu_spsc_put and no mu_spsc_get in progress, nothing transferred yet
spsc_idle ==
  [put_pc |-> "idle", put_item |-> 0, put_ret |-> MU_SCHED_ERR_NONE,
   puts |-> 0, put_log |-> <<>>,
   get_pc |-> "idle", get_item |-> 0, get_ret |-> MU_SPSC_ERR_NONE,
   gets |-> 0, got_log |-> <<>>]

\* no bit vector
bvec_none == [bit_count |-> 0, store |-> <<>>, ones |-> 0, zeros |-> 0]

\* mu_sched_init, which ends by calling mu_sched_reset
Init ==
  /\ links = mu_dlist_init([n \in Node |-> Unlinked], task_list)
  /\ time = [t \in TaskAll |-> 0]
  /\ clock = ClockStart
  /\ current_task = NULL
  /\ irq = mu_spsc_init
  /\ pc = "fg"
  /\ ret = MU_SCHED_ERR_NONE
  /\ calls = 0
  /\ spsc = spsc_idle
  /\ bvec = bvec_none

RECURSIVE pop_all(_, _)
pop_all(L, fuel) ==
  IF mu_dlist_is_empty(L, task_list) \/ fuel = 0 THEN L
  ELSE pop_all(mu_dlist_pop(L, task_list), fuel - 1)

\* mu_sched_reset without the reset of the interrupt queue
mu_sched_reset_keep_ring ==
  /\ CanCall
  /\ calls' = calls + 1
  /\ links' = pop_all(links, Cardinality(Node))
  /\ current_task' = NULL
  /\ UNCHANGED <<spsc, bvec, time, clock, irq, pc, ret>>

\* mu_sched_reset popping one task instead of looping until the list is empty
mu_sched_reset_pop_once ==
  /\ CanCall
  /\ calls' = calls + 1
  /\ irq' = mu_spsc_reset(irq)
  /\ links' = mu_dlist_pop(links, task_list)
  /\ current_task' = NULL
  /\ UNCHANGED <<spsc, bvec, time, clock, pc, ret>>

\* called between steps or by the callable of the running task, as its last
\* call
mu_sched_reset ==
  /\ CanCall
  /\ calls' = calls + 1
  /\ irq' = mu_spsc_reset(irq)
  /\ links' = pop_all(links, Cardinality(Node))
  /\ current_task' = NULL
  /\ UNCHANGED <<spsc, bvec, time, clock, pc, ret>>

\* mu_sched_step selecting the task to call before it drains the interrupt
\* queue
mu_sched_step_select_before_drain ==
  /\ pc = "fg"
  /\ calls < MaxCalls
  /\ calls' = calls + 1
  /\ LET n == mu_sched_get_current_time
         r == get_runnable_task(links, time, n)
         d == drain_irq_task_queue(r.links, time, irq)
     IN  /\ irq' = d.irq
         /\ links' = d.links
         /\ current_task' = r.task
  /\ pc' = "task"
  /\ UNCHANGED <<spsc, bvec, time, clock, ret>>

\* mu_sched_step up to and including the start of mu_task_call: sample the
\* time, drain the interrupt queue, select the task and call it
mu_sched_step ==
  /\ pc = "fg"
  /\ calls < MaxCalls
  /\ calls' = calls + 1
  /\ LET n == mu_sched_get_current_time
         d == drain_irq_task_queue(links, time, irq)
         r == get_runnable_task(d.links, time, n)
     IN  /\ irq' = d.irq
         /\ links' = r.links
         /\ current_task' = r.task
  /\ pc' = "task"
  /\ UNCHANGED <<spsc, bvec, time, clock, ret>>

\* the rest of mu_sched_step without the assignment that clears the current
\* task
mu_sched_step_return_keep_current ==
  /\ pc = "task"
  /\ ret' = MU_SCHED_ERR_NONE
  /\ pc' = "fg"
  /\ UNCHANGED <<spsc, bvec, links, time, clock, current_task, irq, calls>>

\* the rest of mu_sched_step, once the callable has returned
mu_sched_step_return ==
  /\ pc = "task"
  /\ current_task' = NULL
  /\ ret' = MU_SCHED_ERR_NONE
  /\ pc' = "fg"
  /\ UNCHANGED <<spsc, bvec, links, time, clock, irq, calls>>

\* mu_sched_remove_task that reports the task without unlinking it
remove_task_keep_linked(L, task) ==
  [task  |-> IF mu_dlist_element_is_linked(L, mu_task_link(task)) THEN task ELSE NULL,
   links |-> L]

\* mu_sched_remove_task that takes the first task off the list instead of the
\* task it is given
remove_task_from_head(L, task) ==
  [task  |-> IF mu_dlist_unlink_result(L, mu_task_link(task)) = NULL THEN NULL ELSE task,
   links |-> IF mu_dlist_element_is_linked(L, mu_task_link(task))
             THEN mu_dlist_pop(L, task_list)
             ELSE L]

\* [task, links]: what mu_sched_remove_task returns and the list afterwards
remove_task(L, task) ==
  [task  |-> IF mu_dlist_unlink_result(L, mu_task_link(task)) = NULL THEN NULL ELSE task,
   links |-> mu_dlist_unlink(L, mu_task_link(task))]

mu_sched_remove_task(task) ==
  /\ CanCall
  /\ calls' = calls + 1
  /\ ret' = remove_task(links, task).task
  /\ links' = remove_task(links, task).links
  /\ UNCHANGED <<spsc, bvec, time, clock, current_task, irq, pc>>

\* a scheduling call on a task: set its time, then queue_task
sched_task(task, t) ==
  /\ time' = mu_task_set_time(time, task, t)
  /\ links' = queue_task(links, time', task)
  /\ ret' = MU_SCHED_ERR_NONE
  /\ calls' = calls + 1
  /\ UNCHANGED <<spsc, bvec, clock, current_task, irq, pc>>

\* a scheduling call on the null task: mu_task_set_time writes through a null
\* pointer.  The build either traps, or carries on with memory it has
\* written through the null pointer and returns what queue_task returns.
sched_null_task ==
  /\ \E outcome \in {"abort", "undef"} :
        /\ pc' = outcome
        /\ ret' = IF outcome = "undef" THEN MU_SCHED_ERR_NONE ELSE ret
  /\ calls' = calls + 1
  /\ UNCHANGED <<spsc, bvec, links, time, clock, current_task, irq>>

mu_sched_task_now(task) ==
  /\ CanCall
  /\ sched_task(task, mu_sched_get_current_time)

mu_sched_task_at(task, at) ==
  /\ CanCall
  /\ sched_task(task, at)

mu_sched_task_in(task, in) ==
  /\ CanCall
  /\ sched_task(task, mu_time_offset(mu_sched_get_current_time, in))

mu_sched_reschedule_now ==
  /\ CanCall
  /\ LET task == mu_sched_get_current_task
     IN  IF task = NULL
         THEN sched_null_task
         ELSE sched_task(task, mu_sched_get_current_time)

mu_sched_reschedule_in(in) ==
  /\ CanCall
  /\ LET task == mu_sched_get_current_task
     IN  IF task = NULL
         THEN sched_null_task
         ELSE /\ mu_time_difference(mu_time_offset(mu_task_get_time(time, task), in),
                                    clock) <= MaxAhead
              /\ sched_task(task, mu_time_offset(mu_task_get_time(time, task), in))

\* a scheduling call from interrupt level that links the task in the main
\* queue itself
isr_task_into_main_queue(task, t) ==
  /\ CanInterrupt
  /\ sched_task(task, t)

\* a scheduling call from interrupt level: set the task's time, then
\* queue_isr_task
isr_task(task, t) ==
  /\ CanInterrupt
  /\ calls' = calls + 1
  /\ time' = mu_task_set_time(time, task, t)
  /\ irq' = queue_isr_task(irq, task)
  /\ ret' = queue_isr_task_result(irq, task)
  /\ UNCHANGED <<spsc, bvec, links, clock, current_task, pc>>

mu_sched_isr_task_now(task) == isr_task(task, mu_sched_get_current_time)

mu_sched_isr_task_at(task, at) == isr_task(task, at)

mu_sched_isr_task_in(task, in) ==
  isr_task(task, mu_time_offset(mu_sched_get_current_time, in))

----------------------------------------------------------------------------
\* The scheduler driven by an application and by interrupt handlers

Next ==
  \/ Tick
  \/ mu_sched_reset
  \/ mu_sched_step
  \/ mu_sched_step_return
  \/ \E task \in Tasks : mu_sched_remove_task(task)
  \/ \E task \in Tasks : mu_sched_task_now(task)
  \/ \E task \in Tasks, at \in AtChoices : mu_sched_task_at(task, at)
  \/ \E task \in Tasks, in \in Durations : mu_sched_task_in(task, in)
  \/ mu_sched_reschedule_now
  \/ \E in \in Durations : mu_sched_reschedule_in(in)
  \/ \E task \in IsrTasks : mu_sched_isr_task_now(task)
  \/ \E task \in IsrTasks, at \in AtChoices : mu_sched_isr_task_at(task, at)
  \/ \E task \in IsrTasks, in \in Durations : mu_sched_isr_task_in(task, in)

Spec == Init /\ [][Next]_vars

\* a call from interrupt level
IsrCall(task) ==
  \/ mu_sched_isr_task_now(task)
  \/ \E at \in AtChoices : mu_sched_isr_task_at(task, at)
  \/ \E in \in Durations : mu_sched_isr_task_in(task, in)

\* a foreground scheduling call on a task
FgSchedule(task) ==
  \/ mu_sched_task_now(task)
  \/ \E at \in AtChoices : mu_sched_task_at(task, at)
  \/ \E in \in Durations : mu_sched_task_in(task, in)
  \/ task = current_task /\ mu_sched_reschedule_now
  \/ task = current_task /\ \E in \in Durations : mu_sched_reschedule_in(in)

\* a foreground operation
FgCall ==
  \/ mu_sched_reset
  \/ mu_sched_step
  \/ mu_sched_step_return
  \/ \E task \in Tasks : mu_sched_remove_task(task)
  \/ \E task \in Tasks : mu_sched_task_now(task)
  \/ \E task \in Tasks, at \in AtChoices : mu_sched_task_at(task, at)
  \/ \E task \in Tasks, in \in Durations : mu_sched_task_in(task, in)
  \/ mu_sched_reschedule_now
  \/ \E in \in Durations : mu_sched_reschedule_in(in)

\* the application asks for the status of a task and keeps the answer
get_task_status_call(task) ==
  /\ CanCall
  /\ calls' = calls + 1
  /\ ret' = mu_sched_get_task_status(task)
  /\ UNCHANGED <<spsc, bvec, links, time, clock, current_task, irq, pc>>

NextStatus ==
  \/ Next
  \/ \E task \in TaskAll : get_task_status_call(task)

\* The scheduler with an application that also queries task status
SpecStatus == Init /\ [][NextStatus]_vars

\* one task queued with any fire-time, at any current time
InitTime ==
  /\ time \in {[t \in TaskAll |-> IF t = "A" THEN a ELSE 0] : a \in Time}
  /\ links = queue_task(mu_dlist_init([n \in Node |-> Unlinked], task_list), time, "A")
  /\ clock \in Time
  /\ current_task = NULL
  /\ irq = mu_spsc_init
  /\ pc = "fg"
  /\ ret = MU_SCHED_ERR_NONE
  /\ calls = 0
  /\ spsc = spsc_idle
  /\ bvec = bvec_none

NextTime == mu_sched_step \/ mu_sched_step_return

\* mu_sched_step comparing every fire-time with every current time
SpecTime == InitTime /\ [][NextTime]_vars

----------------------------------------------------------------------------
\* The interrupt queue with its producer (queue_isr_task, from interrupt
\* level) and its consumer (the while loop of mu_sched_step) taken one memory
\* access at a time.  The items are numbered by the call that puts them, from
\* 1; 0 is no item.

\* queue_isr_task calls mu_spsc_put, which tests for a full ring
put_check(item) ==
  /\ spsc.put_pc = "idle"
  /\ spsc.puts < MaxCalls
  /\ item = spsc.puts + 1
  /\ LET r == queue_isr_task_result(irq, item)
     IN  spsc' = [spsc EXCEPT !.puts = item,
                              !.put_ret = r,
                              !.put_item = item,
                              !.put_pc = IF r = MU_SCHED_ERR_NONE THEN "write" ELSE "idle"]
  /\ UNCHANGED <<links, time, clock, current_task, irq, pc, ret, calls, bvec>>

\* mu_spsc_put writes the slot at the producer index
put_write ==
  /\ spsc.put_pc = "write"
  /\ irq' = [irq EXCEPT !.store[irq.putr] = spsc.put_item]
  /\ spsc' = [spsc EXCEPT !.put_pc = "publish"]
  /\ UNCHANGED <<links, time, clock, current_task, pc, ret, calls, bvec>>

\* mu_spsc_put publishes the producer index and returns
put_publish ==
  /\ spsc.put_pc = "publish"
  /\ irq' = [irq EXCEPT !.putr = (irq.putr + 1) % MU_IRQ_TASK_QUEUE_SIZE]
  /\ spsc' = [spsc EXCEPT !.put_pc = "idle",
                           !.put_log = Append(spsc.put_log, spsc.put_item)]
  /\ UNCHANGED <<links, time, clock, current_task, pc, ret, calls, bvec>>

\* the loop of mu_sched_step going on whatever mu_spsc_get returns
get_check_unchecked ==
  /\ spsc.get_pc = "idle"
  /\ spsc.gets <= MaxCalls
  /\ spsc' = [spsc EXCEPT !.gets = spsc.gets + 1,
                           !.get_ret = MU_SPSC_ERR_NONE,
                           !.get_pc = "read"]
  /\ UNCHANGED <<links, time, clock, current_task, irq, pc, ret, calls, bvec>>

\* the loop of mu_sched_step calls mu_spsc_get, which tests for an empty ring;
\* one get more than there are puts is enough to find the ring empty
get_check ==
  /\ spsc.get_pc = "idle"
  /\ spsc.gets <= MaxCalls
  /\ LET r == mu_spsc_get_result(irq)
     IN  spsc' = [spsc EXCEPT !.gets = spsc.gets + 1,
                              !.get_ret = r,
                              !.get_pc = IF r = MU_SPSC_ERR_NONE THEN "read" ELSE "idle"]
  /\ UNCHANGED <<links, time, clock, current_task, irq, pc, ret, calls, bvec>>

\* mu_spsc_get reads the slot at the consumer index
get_read ==
  /\ spsc.get_pc = "read"
  /\ spsc' = [spsc EXCEPT !.get_item = mu_spsc_get_item(irq), !.get_pc = "publish"]
  /\ UNCHANGED <<links, time, clock, current_task, irq, pc, ret, calls, bvec>>

\* the task an item of the interrupt queue stands for
ItemTask(item) == IF item % 2 = 1 THEN "B" ELSE "C"

\* mu_spsc_get publishes the consumer index and returns the item to the loop,
\* which calls queue_task on it
get_publish ==
  /\ spsc.get_pc = "publish"
  /\ irq' = mu_spsc_get(irq)
  /\ spsc' = [spsc EXCEPT !.get_pc = "idle",
                           !.got_log = Append(spsc.got_log, spsc.get_item)]
  /\ links' = queue_task(links, time, ItemTask(spsc.get_item))
  /\ UNCHANGED <<time, clock, current_task, pc, ret, calls, bvec>>

NextRing ==
  \/ \E item \in 1 .. MaxCalls : put_check(item)
  \/ put_write
  \/ put_publish
  \/ get_check
  \/ get_read
  \/ get_publish

\* task A is in the main queue, due in two ticks; B and C hold the fire-times
\* of earlier calls, B the current time and C the tick after it
InitRing ==
  /\ time = [t \in TaskAll |->
               IF t = "A" THEN mu_time_offset(ClockStart, 2)
               ELSE IF t = "B" THEN ClockStart
               ELSE IF t = "C" THEN mu_time_offset(ClockStart, 1)
               ELSE 0]
  /\ links = queue_task(mu_dlist_init([n \in Node |-> Unlinked], task_list), time, "A")
  /\ clock = ClockStart
  /\ current_task = NULL
  /\ irq = [mu_spsc_init EXCEPT !.store = [i \in Slots |-> 0]]
  /\ pc = "fg"
  /\ ret = MU_SCHED_ERR_NONE
  /\ calls = 0
  /\ spsc = spsc_idle
  /\ bvec = bvec_none

SpecRing == InitRing /\ [][NextRing]_vars

\* the foreground keeps running: a mu_spsc_get that has started finishes, and
\* the loop calls mu_spsc_get again; the interrupts stop at some point
SpecRingLive ==
  /\ SpecRing
  /\ WF_vars(get_check)
  /\ WF_vars(get_read)
  /\ WF_vars(get_publish)

----------------------------------------------------------------------------
\* mu_dlist on its own: one list head and four elements, unlinked at the start

\* the result and the effect of an operation of mu_dlist on the list
dlist_call(result, L) ==
  /\ calls < MaxCalls
  /\ calls' = calls + 1
  /\ ret' = result
  /\ links' = L
  /\ UNCHANGED <<time, clock, current_task, irq, pc, spsc, bvec>>

dlist_init == dlist_call(task_list, mu_dlist_init(links, task_list))

\* an element is pushed when it is not in the list
dlist_push(element) ==
  /\ ~InList(links, task_list, element)
  /\ dlist_call(task_list, mu_dlist_push(links, task_list, element))

dlist_lpush(element) ==
  /\ ~InList(links, task_list, element)
  /\ dlist_call(task_list, mu_dlist_lpush(links, task_list, element))

dlist_pop == dlist_call(mu_dlist_first(links, task_list), mu_dlist_pop(links, task_list))

dlist_lpop == dlist_call(mu_dlist_last(links, task_list), mu_dlist_lpop(links, task_list))

dlist_reverse == dlist_call(task_list, mu_dlist_reverse(links, task_list))

NextDlist ==
  \/ dlist_init
  \/ \E element \in TaskAll : dlist_push(element)
  \/ \E element \in TaskAll : dlist_lpush(element)
  \/ dlist_pop
  \/ dlist_lpop
  \/ dlist_reverse

SpecDlist == Init /\ [][NextDlist]_vars

----------------------------------------------------------------------------
\* mu_bvec: bit vectors stored in arrays of bytes

SizeMod == 2 ^ SizeBits

\* a & b on unsigned values
RECURSIVE BitAnd(_, _)
BitAnd(a, b) ==
  IF a = 0 \/ b = 0
    THEN 0
    ELSE (a % 2) * (b % 2) + 2 * BitAnd(a \div 2, b \div 2)

\* v >> n on unsigned values
ShiftRight(v, n) == v \div (2 ^ n)

s_byte_rmasks == <<0, 1, 3, 7, 15, 31, 63, 127>>

\* count_one_bits: every assignment to the uint8_t c truncates to eight bits
count_one_bits(v) ==
  LET c1 == (v - BitAnd(ShiftRight(v, 1), 85)) % 256
      c2 == (BitAnd(ShiftRight(c1, 2), 51) + BitAnd(c1, 51)) % 256
      c3 == BitAnd(ShiftRight(c2, 4) + c2, 15) % 256
  IN  c3

\* the loop of mu_bvec_count_ones over the whole bytes, then the masked
\* remainder
RECURSIVE count_ones_from(_, _, _, _)
count_ones_from(store, byte_index, bits_remain, count) ==
  IF bits_remain >= 8
    THEN count_ones_from(store, byte_index + 1, bits_remain - 8,
                         (count + count_one_bits(store[byte_index])) % SizeMod)
    ELSE IF bits_remain > 0
      THEN (count + count_one_bits(BitAnd(store[byte_index],
                                         s_byte_rmasks[bits_remain + 1])))
             % SizeMod
      ELSE count

mu_bvec_count_ones(bit_count, store) == count_ones_from(store, 0, bit_count, 0)

mu_bvec_count_zeros(bit_count, store) ==
  (1 - mu_bvec_count_ones(bit_count, store)) % SizeMod

\* the byte values the vectors are made of
ByteChoices == {0, 1, 85, 128, 170, 255}

\* a caller's bit vector and the bit count it passes
InitBvec ==
  /\ links = mu_dlist_init([n \in Node |-> Unlinked], task_list)
  /\ time = [t \in TaskAll |-> 0]
  /\ clock = ClockStart
  /\ current_task = NULL
  /\ irq = mu_spsc_init
  /\ pc = "fg"
  /\ ret = MU_SCHED_ERR_NONE
  /\ calls = 0
  /\ spsc = spsc_idle
  /\ \E store \in [0 .. (MaxBytes - 1) -> ByteChoices] :
       \E bit_count \in 0 .. (8 * MaxBytes) :
         bvec = [bit_count |-> bit_count, store |-> store,
                 ones |-> 0, zeros |-> 0]

\* the caller counts the ones and the zeros of its vector
bvec_count ==
  /\ calls = 0
  /\ calls' = 1
  /\ bvec' = [bvec EXCEPT
                !.ones = mu_bvec_count_ones(bvec.bit_count, bvec.store),
                !.zeros = mu_bvec_count_zeros(bvec.bit_count, bvec.store)]
  /\ UNCHANGED <<links, time, clock, current_task, irq, pc, ret, spsc>>

NextBvec == bvec_count

SpecBvec == InitBvec /\ [][NextBvec]_vars

\* The scheduler with no interrupt activity
NextFg == Tick \/ FgCall

SpecFg == Init /\ [][NextFg]_vars

----------------------------------------------------------------------------
\* The scheduler stepped for ever while a task waits in the main queue

\* the task that waits for its turn
waiting_task == "A"

\* the state after mu_sched_init and one mu_sched_task_at on the waiting
\* task, with a fire-time the clock will reach
InitLive ==
  /\ \E d \in 0 .. MaxTicks :
       time = mu_task_set_time([t \in TaskAll |-> 0], waiting_task,
                               mu_time_offset(ClockStart, d))
  /\ links = queue_task(mu_dlist_init([n \in Node |-> Unlinked], task_list),
                        time, waiting_task)
  /\ clock = ClockStart
  /\ current_task = NULL
  /\ irq = mu_spsc_init
  /\ pc = "fg"
  /\ ret = MU_SCHED_ERR_NONE
  /\ calls = 0
  /\ spsc = spsc_idle
  /\ bvec = bvec_none

\* mu_sched_step in the main loop, up to and including the start of
\* mu_task_call: the loop never ends
mu_sched_step_again ==
  /\ pc = "fg"
  /\ LET n == mu_sched_get_current_time
         d == drain_irq_task_queue(links, time, irq)
         r == get_runnable_task(d.links, time, n)
     IN  /\ irq' = d.irq
         /\ links' = r.links
         /\ current_task' = r.task
  /\ pc' = "task"
  /\ UNCHANGED <<spsc, bvec, time, clock, ret, calls>>

\* the callable of a task calls mu_sched_reschedule_now every time it runs
reschedule_now_again ==
  /\ pc = "task"
  /\ current_task \in Tasks
  /\ time' = mu_task_set_time(time, mu_sched_get_current_task,
                              mu_sched_get_current_time)
  /\ links' = queue_task(links, time', mu_sched_get_current_task)
  /\ ret' = MU_SCHED_ERR_NONE
  /\ UNCHANGED <<spsc, bvec, clock, current_task, irq, pc, calls>>

\* the other scheduling calls of the application: none removes or reschedules
\* the waiting task while it waits
LiveFgCall ==
  /\ calls < MaxLiveCalls
  /\ \/ \E task \in Tasks \ {waiting_task} : mu_sched_remove_task(task)
     \/ \E task \in Tasks \ {waiting_task} : mu_sched_task_now(task)
     \/ \E task \in Tasks \ {waiting_task}, at \in AtChoices : mu_sched_task_at(task, at)
     \/ \E task \in Tasks \ {waiting_task}, in \in Durations : mu_sched_task_in(task, in)
     \/ \E in \in Durations : current_task # NULL /\ mu_sched_reschedule_in(in)

\* the scheduling calls of the interrupt handlers
LiveIsrCall ==
  /\ calls < MaxLiveCalls
  /\ \E task \in IsrTasks \ {waiting_task} : IsrCall(task)

NextLiveFg ==
  \/ Tick
  \/ mu_sched_step_again
  \/ mu_sched_step_return
  \/ reschedule_now_again
  \/ LiveFgCall

NextLive == NextLiveFg \/ LiveIsrCall

\* the main loop calls mu_sched_step again and again, callables return, and
\* the clock source keeps ticking until it has reached the fire-time (a tick
\* is taken between steps, hence the strong fairness)
LiveFairness ==
  /\ []<><<mu_sched_step_again>>_vars
  /\ WF_vars(mu_sched_step_return)
  /\ SF_vars(Tick)

SpecLive == InitLive /\ [][NextLive]_vars /\ LiveFairness

\* The same with no interrupt activity
SpecLiveFg == InitLive /\ [][NextLiveFg]_vars /\ LiveFairness

----------------------------------------------------------------------------
\* Vocabulary of the properties

InSeq(q, t) == \E i \in 1 .. Len(q) : q[i] = t

Pos(q, t) == CHOOSE i \in 1 .. Len(q) : q[i] = t

Occurrences(q, t) == Cardinality({i \in 1 .. Len(q) : q[i] = t})

\* no member of q has a fire-time that precedes the fire-time of a member
\* ahead of it
SeqSorted(q, T) ==
  \A i, j \in 1 .. Len(q) : i < j => ~mu_time_precedes(T[q[j]], T[q[i]])

FireTimes(q, T) == {T[q[i]] : i \in 1 .. Len(q)}

\* the times of S all lie within less than half the timestamp range of the
\* earliest of them
WithinWindow(S) ==
  S = {} \/ \E b \in S : \A x \in S : (x - b) % TimeMod < TimeMod \div 2

\* the main queue as mu_sched_step finds it once the interrupt queue is drained
Drained == Members(drain_irq_task_queue(links, time, irq).links, task_list)

----------------------------------------------------------------------------
\* C1: in every reachable state, interrupt-level calls included, each task
\* occurs in the main queue at most once.
C1_AtMostOnce == \A t \in TaskAll : Occurrences(Queue, t) <= 1

\* a step has drained two entries of the same task from the interrupt queue
\* and that task is in the main queue
C1_Witness ==
  /\ pc = "task"
  /\ irq.getr = 2 /\ irq.putr = 2
  /\ irq.store[0] = irq.store[1]
  /\ InSeq(Queue, irq.store[0])
  /\ Len(Queue) >= 2

\* C2: with no interrupt activity and all queued fire-times within half the
\* timestamp window of each other, the main queue is ordered by fire-time
\* after every foreground operation.
C2_SortedNoIsr ==
  WithinWindow(FireTimes(Queue, time)) => SeqSorted(Queue, time)

\* three tasks are queued with three different fire-times that straddle the
\* wrap of the timestamp
C2_Witness ==
  /\ Len(Queue) = 3
  /\ time[Queue[1]] = TimeMod - 1
  /\ time[Queue[2]] = 0
  /\ time[Queue[3]] = 1
  /\ WithinWindow(FireTimes(Queue, time))

\* C3: the main queue is sorted by fire-time after every foreground operation
\* and every step, also when interrupt-level calls are interleaved between
\* them, including calls on a task that is linked in the main queue.
C3_SortedWithIsr ==
  [][FgCall => (WithinWindow(FireTimes(Queue, time))' => SeqSorted(Queue, time)')]_vars

\* C4: a call from interrupt level leaves the main queue, and the link and
\* the fire-time of every task linked in it, as they were.
C4_IsrWritesRingOnly ==
  [][\A task \in IsrTasks :
       IsrCall(task) =>
         /\ links' = links
         /\ \A t \in TaskAll : mu_task_is_scheduled(links, t) => time'[t] = time[t]]_vars

\* C5: a task that mu_sched_step pops from the main queue and calls has a
\* fire-time that does not follow the time the step sampled.
C5_NeverEarly ==
  [][(mu_sched_step /\ Queue' # Drained) =>
       ~mu_time_follows(time[current_task'], clock)]_vars

\* a step is calling a task it popped at exactly the task's fire-time, with a
\* task that is not yet due left in the queue
C5_Witness ==
  /\ pc = "task"
  /\ current_task \in Tasks
  /\ ~mu_task_is_scheduled(links, current_task)
  /\ time[current_task] = clock
  /\ \E t \in Tasks : InSeq(Queue, t) /\ mu_time_follows(time[t], clock)

\* C6: mu_sched_step calls the idle task only if, after the drain of the
\* interrupt queue, no task of the main queue has a fire-time equal to or
\* preceding the step's time; if one has, the step calls a main-queue task.
C6_IdleOnlyWhenNoneRunnable ==
  [][mu_sched_step =>
       (WithinWindow(FireTimes(Drained, time) \cup {clock}) =>
          ((current_task' = idle_task) <=>
             ~\E i \in 1 .. Len(Drained) :
                 ~mu_time_follows(time[Drained[i]], clock)))]_vars

\* C7: a call of mu_sched_step calls one callable, the head of the main
\* queue or the idle task, removes no other task from the main queue and
\* returns MU_SCHED_ERR_NONE; what the callable schedules is not run by the
\* same step.
C7_OneCallablePerStep ==
  [][/\ mu_sched_step =>
          \/ /\ Drained # << >>
             /\ current_task' = Head(Drained)
             /\ Queue' = Tail(Drained)
          \/ /\ current_task' = idle_task
             /\ Queue' = Drained
     /\ (pc = "task" /\ pc' = "task") =>
          current_task' = current_task \/ (mu_sched_reset /\ current_task' = NULL)
     /\ mu_sched_step_return =>
          /\ ret' = MU_SCHED_ERR_NONE
          /\ current_task' = NULL
          /\ Queue' = Queue]_vars

\* inside its callable a task has scheduled itself for the current time: it is
\* linked again and the step does not call it a second time
C7_Witness ==
  /\ pc = "task"
  /\ current_task \in Tasks
  /\ mu_task_is_scheduled(links, current_task)
  /\ time[current_task] = clock
  /\ Len(Queue) >= 2

\* C8: if A and B are both in the main queue, A's fire-time strictly precedes
\* B's and neither is removed or rescheduled, a step does not call B while A
\* is still waiting.
C8_EarlierRunsFirst ==
  [][mu_sched_step =>
       \A a, b \in Tasks :
         ( /\ InSeq(Queue, a) /\ InSeq(Queue, b)
           /\ ~InSeq(Ring(irq), a) /\ ~InSeq(Ring(irq), b)
           /\ mu_time_precedes(time[a], time[b])
           /\ WithinWindow(FireTimes(Drained, time) \cup {clock}) )
         => current_task' # b]_vars

\* C9: a newly inserted task is placed after every queued task with an equal
\* or earlier fire-time, so that tasks with equal fire-times run in the order
\* in which they were scheduled.
C9_FifoAmongTies ==
  [][\A task \in Tasks :
       FgSchedule(task) =>
         \A q \in Tasks \ {task} :
           ( /\ InSeq(Queue, q)
             /\ WithinWindow(FireTimes(Queue', time'))
             /\ ~mu_time_follows(time'[q], time'[task]) )
           => Pos(Queue', q) < Pos(Queue', task)]_vars

\* C10: mu_sched_reschedule_now and mu_sched_reschedule_in called with no
\* current task return MU_SCHED_ERR_NOT_FOUND, change neither the main queue
\* nor a task, and do not abort.
C10_RescheduleWithoutCurrent ==
  [][( /\ current_task = NULL
       /\ mu_sched_reschedule_now \/ \E in \in Durations : mu_sched_reschedule_in(in) )
     => /\ ret' = MU_SCHED_ERR_NOT_FOUND
        /\ pc' = pc
        /\ links' = links
        /\ time' = time]_vars

\* task is at its ordered place in q: the members ahead of it are those whose
\* fire-time does not follow its own, the members behind it those whose
\* fire-time follows it
InOrderAt(q, T, task) ==
  \A i \in 1 .. Len(q) :
    q[i] # task => ((i < Pos(q, task)) <=> ~mu_time_follows(T[q[i]], T[task]))

\* a call made by the callable of the running application task
InCallable == pc = "task" /\ current_task \in Tasks

\* C11: mu_sched_reschedule_in(D) called from the running task's callable sets
\* the task's fire-time to its previous fire-time plus D, whatever the current
\* time is, and links the task once, at the ordered place of the new time.
C11_RescheduleInKeepsCadence ==
  [][\A in \in Durations :
       (InCallable /\ mu_sched_reschedule_in(in)) =>
         /\ time'[current_task] = mu_time_offset(time[current_task], in)
         /\ Occurrences(Queue', current_task) = 1
         /\ WithinWindow(FireTimes(Queue', time')) =>
              InOrderAt(Queue', time', current_task)]_vars

\* a task is scheduled for the current time: mu_sched_task_now on it, or
\* mu_sched_reschedule_now by it
ScheduleNow(task) ==
  \/ mu_sched_task_now(task)
  \/ task = current_task /\ mu_sched_reschedule_now

\* C12: a task scheduled with mu_sched_task_now, or a running task calling
\* mu_sched_reschedule_now, is linked behind every task already in the main
\* queue whose fire-time does not follow the current time, so that those
\* tasks are popped by the following steps before it is.
C12_NowYieldsToRunnable ==
  [][\A task \in Tasks :
       ScheduleNow(task) =>
         \A q \in Tasks \ {task} :
           ( /\ InSeq(Queue, q)
             /\ ~mu_time_follows(time[q], clock)
             /\ WithinWindow(FireTimes(Queue', time') \cup {clock}) )
           => Pos(Queue', q) < Pos(Queue', task)]_vars

\* C13: mu_sched_task_at(T, t), on a task in any state and so also on a task
\* that a preceding mu_sched_task_at has linked, returns MU_SCHED_ERR_NONE and
\* leaves T in the main queue exactly once, with fire-time t and at the
\* ordered place of t.
C13_TaskAtTwice ==
  [][\A task \in Tasks, at \in AtChoices :
       mu_sched_task_at(task, at) =>
         /\ ret' = MU_SCHED_ERR_NONE
         /\ Occurrences(Queue', task) = 1
         /\ time'[task] = at
         /\ WithinWindow(FireTimes(Queue', time')) =>
              InOrderAt(Queue', time', task)]_vars

\* C14: for a task T that is not in the main queue, mu_sched_task_at(T, t)
\* immediately followed by mu_sched_remove_task(T) returns T, leaves T
\* unlinked and leaves the main queue and the fire-time of every other task
\* as they were before mu_sched_task_at.
C14_TaskAtThenRemove ==
  [][\A task \in Tasks, at \in AtChoices :
       (mu_sched_task_at(task, at) /\ ~mu_task_is_scheduled(links, task)) =>
         LET r == remove_task(links', task)
         IN  /\ r.task = task
             /\ ~mu_task_is_scheduled(r.links, task)
             /\ r.links = links
             /\ Members(r.links, task_list) = Queue
             /\ \A o \in TaskAll \ {task} : time'[o] = time[o]]_vars

\* mu_sched_remove_task has returned a task that was linked between two
\* others, and the two others are the main queue
C14_Witness ==
  /\ pc = "fg"
  /\ ret \in Tasks
  /\ ~mu_task_is_scheduled(links, ret)
  /\ Len(Queue) = 2
  /\ mu_time_precedes(time[Queue[1]], time[ret])
  /\ mu_time_precedes(time[ret], time[Queue[2]])

\* q without task
Without(q, task) == LET keep(x) == x # task IN SelectSeq(q, keep)

\* C15: mu_sched_remove_task(T) returns T and unlinks it when T is in the main
\* queue, and returns NULL and changes nothing when T is not; the other tasks
\* stay queued in the order they had, with their fire-times.
C15_RemoveTask ==
  [][\A task \in Tasks :
       mu_sched_remove_task(task) =>
         /\ time' = time
         /\ IF InSeq(Queue, task)
            THEN /\ ret' = task
                 /\ ~mu_task_is_scheduled(links', task)
                 /\ Queue' = Without(Queue, task)
            ELSE /\ ret' = NULL
                 /\ links' = links]_vars

\* mu_sched_remove_task has returned a task it unlinked, and two tasks with
\* the same fire-time as that task are still queued
C15_Witness ==
  /\ ret \in Tasks
  /\ ~mu_task_is_scheduled(links, ret)
  /\ Len(Queue) = 2
  /\ time[Queue[1]] = time[ret]
  /\ time[Queue[2]] = time[ret]

\* the task that a mu_sched_step started in the state (L, T, q) at time n calls
StepCalls(L, T, q, n) ==
  get_runnable_task(drain_irq_task_queue(L, T, q).links, T, n).task

\* C16: once mu_sched_remove_task(T) has returned, the mu_sched_step that
\* follows it with no scheduling call on T in between does not call T, also
\* when an interrupt-level call has put T in the interrupt queue before the
\* remove and no step has drained it yet.
C16_RemoveCancels ==
  [][\A task \in Tasks :
       (pc = "fg" /\ mu_sched_remove_task(task)) =>
         StepCalls(links', time', irq', clock') # task]_vars

\* C17: a call from interrupt level returns MU_SCHED_ERR_FULL exactly when the
\* interrupt queue holds MU_IRQ_TASK_QUEUE_SIZE - 1 undrained entries;
\* otherwise it returns MU_SCHED_ERR_NONE and the task is the newest entry of
\* the interrupt queue.
C17_FullAtCapacity ==
  [][\A task \in IsrTasks :
       IsrCall(task) =>
         IF Len(Ring(irq)) = MU_IRQ_TASK_QUEUE_SIZE - 1
         THEN ret' = MU_SCHED_ERR_FULL
         ELSE /\ ret' = MU_SCHED_ERR_NONE
              /\ Ring(irq') = Append(Ring(irq), task)]_vars

\* a call from interrupt level has returned MU_SCHED_ERR_FULL with
\* MU_IRQ_TASK_QUEUE_SIZE - 1 entries waiting
C17_Witness ==
  /\ ret = MU_SCHED_ERR_FULL
  /\ Len(Ring(irq)) = MU_IRQ_TASK_QUEUE_SIZE - 1

\* C18: a call from interrupt level that returns MU_SCHED_ERR_FULL has no
\* effect: the entries and the indices of the interrupt queue, the main queue
\* and the fire-time of the task given to the call are as before the call.
C18_FullHasNoEffect ==
  [][\A task \in IsrTasks :
       (IsrCall(task) /\ ret' = MU_SCHED_ERR_FULL) =>
         /\ irq' = irq
         /\ links' = links
         /\ time'[task] = time[task]]_vars

\* how many of n successive interrupt-level enqueues of task the queue q accepts
RECURSIVE Accepted(_, _, _)
Accepted(q, task, n) ==
  IF n = 0 \/ queue_isr_task_result(q, task) # MU_SCHED_ERR_NONE THEN 0
  ELSE 1 + Accepted(queue_isr_task(q, task), task, n - 1)

\* C19: one mu_sched_step drains the interrupt queue completely: every entry
\* that was in it when the step started is in the main queue or is the task
\* the step calls, the interrupt queue is empty, and it then accepts
\* MU_IRQ_TASK_QUEUE_SIZE - 1 further enqueues.
C19_StepDrainsAll ==
  [][mu_sched_step =>
       /\ Ring(irq') = << >>
       /\ \A i \in 1 .. Len(Ring(irq)) :
            InSeq(Queue', Ring(irq)[i]) \/ current_task' = Ring(irq)[i]
       /\ \A task \in IsrTasks :
            Accepted(irq', task, MU_IRQ_TASK_QUEUE_SIZE) = MU_IRQ_TASK_QUEUE_SIZE - 1]_vars

\* a step has drained two entries into the main queue and the interrupt queue
\* has accepted two more since; it is full again
C19_Witness ==
  /\ irq.getr = 2
  /\ irq.putr = 1
  /\ ret = MU_SCHED_ERR_NONE
  /\ Len(Queue) = 2
  /\ \A i \in 1 .. 2 : Queue[i] \in IsrTasks

\* C20: a call from interrupt level changes nothing that can be observed of
\* the main queue: its members and their order, mu_sched_task_count,
\* mu_sched_is_empty, mu_sched_get_next_task and mu_task_is_scheduled of the
\* task are as before the call.
C20_IsrNotObservable ==
  [][\A task \in IsrTasks :
       IsrCall(task) =>
         /\ Queue' = Queue
         /\ mu_sched_task_count(links') = mu_sched_task_count(links)
         /\ mu_sched_is_empty(links') = mu_sched_is_empty(links)
         /\ mu_sched_get_next_task(links') = mu_sched_get_next_task(links)
         /\ mu_task_is_scheduled(links', task) = mu_task_is_scheduled(links, task)]_vars

\* a task that is not scheduled is the newest entry of the interrupt queue,
\* and the main queue holds another task
C20_Witness ==
  /\ Len(Ring(irq)) >= 1
  /\ ~mu_task_is_scheduled(links, Ring(irq)[Len(Ring(irq))])
  /\ ret = MU_SCHED_ERR_NONE
  /\ mu_sched_task_count(links) = 1
  /\ ~mu_sched_is_empty(links)
  /\ mu_sched_get_next_task(links) = "A"

\* C21: a step transfers the entries of the interrupt queue in the order in
\* which the interrupt-level calls enqueued them, so that of two different
\* tasks with equal fire-times, each enqueued once, the one enqueued first is
\* ahead of the other in the main queue after the drain and the step does not
\* call the other one.
C21_DrainKeepsIsrOrder ==
  [][mu_sched_step =>
       \A i, j \in 1 .. Len(Ring(irq)) :
         LET first  == Ring(irq)[i]
             second == Ring(irq)[j]
         IN  ( /\ i < j
               /\ first # second
               /\ Occurrences(Ring(irq), first) = 1
               /\ Occurrences(Ring(irq), second) = 1
               /\ time[first] = time[second] )
             => /\ Pos(Drained, first) < Pos(Drained, second)
                /\ current_task' # second]_vars

\* a step has drained two different tasks with equal fire-times: it is
\* calling the one enqueued first and the other is at the head of the main
\* queue, ahead of a task that was queued before the drain
C21_Witness ==
  /\ pc = "task"
  /\ irq.getr = 2 /\ irq.putr = 2
  /\ irq.store[0] # irq.store[1]
  /\ time[irq.store[0]] = time[irq.store[1]]
  /\ current_task = irq.store[0]
  /\ Len(Queue) = 2
  /\ Queue[1] = irq.store[1]

\* C22: the drain comes before the selection: a task that is in the interrupt
\* queue when a step starts, with a fire-time that does not follow the step's
\* time, is called by that very step, provided the drained main queue holds
\* no task ahead of it with an earlier or equal fire-time.
C22_DrainBeforeSelect ==
  [][mu_sched_step =>
       \A task \in IsrTasks :
         ( /\ InSeq(Ring(irq), task)
           /\ ~mu_time_follows(time[task], clock)
           /\ WithinWindow(FireTimes(Drained, time) \cup {clock})
           /\ \A i \in 1 .. Len(Drained) :
                i < Pos(Drained, task) =>
                  mu_time_follows(time[Drained[i]], time[task]) )
         => current_task' = task]_vars

\* an interrupt-level call enqueued a task for the time 7, the clock advanced
\* and the step at time 0 has drained the task and is calling it
C22_Witness ==
  /\ pc = "task"
  /\ clock = 0
  /\ irq.getr = 1 /\ irq.putr = 1
  /\ current_task = irq.store[0]
  /\ current_task \in IsrTasks
  /\ time[current_task] = TimeMod - 1
  /\ Len(Queue) = 1

\* the status of a task is SCHEDULED or RUNNABLE
Waiting(task) ==
  mu_sched_get_task_status(task) \in
    {MU_SCHED_TASK_STATUS_SCHEDULED, MU_SCHED_TASK_STATUS_RUNNABLE}

\* C23 as stated: for every task T, mu_task_is_scheduled(T) iff T is in the
\* main queue iff T is not the running task and its status is SCHEDULED or
\* RUNNABLE, also after the running task has scheduled itself from its
\* callable.
C23_ScheduledIffQueued ==
  \A task \in TaskAll :
    /\ mu_task_is_scheduled(links, task) <=> InSeq(Queue, task)
    /\ InSeq(Queue, task) <=> (task # current_task /\ Waiting(task))

\* C23 as amended: for every task T, mu_task_is_scheduled(T) iff T is in the
\* main queue; and for every task T other than the running task, T is in the
\* main queue iff its status is SCHEDULED or RUNNABLE.
C23_ScheduledIffQueuedUnlessRunning ==
  \A task \in TaskAll :
    /\ mu_task_is_scheduled(links, task) <=> InSeq(Queue, task)
    /\ task # current_task => (InSeq(Queue, task) <=> Waiting(task))

\* the running task has scheduled itself from its callable: it is in the main
\* queue, behind another task, and its status is ACTIVE
C23_Witness ==
  /\ pc = "task"
  /\ current_task \in Tasks
  /\ Len(Queue) = 2
  /\ Queue[2] = current_task
  /\ mu_sched_get_task_status(current_task) = MU_SCHED_TASK_STATUS_ACTIVE
  /\ Waiting(Queue[1])

\* C24 as stated: mu_sched_get_current_task is NULL whenever no step is in
\* progress (after mu_sched_init, between steps, after mu_sched_reset); a step
\* that pops a task from the main queue makes it the current task, and it
\* stays the current task for as long as its callable runs.
C24_CurrentTask ==
  [][/\ pc = "fg" => mu_sched_get_current_task = NULL
     /\ pc' = "fg" => mu_sched_get_current_task' = NULL
     /\ (mu_sched_step /\ Queue' # Drained) =>
          mu_sched_get_current_task' = Head(Drained)
     /\ (pc = "task" /\ pc' = "task") =>
          mu_sched_get_current_task' = mu_sched_get_current_task]_vars

\* C24 as amended: as stated, except that a callable that calls
\* mu_sched_reset has no current task from then on.
C24_CurrentTaskUnlessReset ==
  [][/\ pc = "fg" => mu_sched_get_current_task = NULL
     /\ pc' = "fg" => mu_sched_get_current_task' = NULL
     /\ (mu_sched_step /\ Queue' # Drained) =>
          mu_sched_get_current_task' = Head(Drained)
     /\ (pc = "task" /\ pc' = "task" /\ ~mu_sched_reset) =>
          mu_sched_get_current_task' = mu_sched_get_current_task
     /\ (pc = "task" /\ mu_sched_reset) =>
          mu_sched_get_current_task' = NULL]_vars

\* the callable of a popped task is running, it has called
\* mu_sched_remove_task on a task that was not scheduled, and it is still the
\* current task
C24_Witness ==
  /\ pc = "task"
  /\ mu_sched_get_current_task \in Tasks
  /\ ~mu_task_is_scheduled(links, mu_sched_get_current_task)
  /\ ret = NULL
  /\ Len(Queue) = 1

\* C25: a step that finds no runnable task calls the idle task with no
\* current task: while the idle callable runs mu_sched_get_current_task is
\* NULL and the status of the idle task is not ACTIVE, and what
\* mu_sched_reschedule_now does with the current task then does not link the
\* idle task in the main queue.
C25_IdleHasNoCurrentMarker ==
  [][(mu_sched_step /\ Queue' = Drained) =>
       /\ mu_sched_get_current_task' = NULL
       /\ mu_sched_get_task_status(idle_task)' # MU_SCHED_TASK_STATUS_ACTIVE
       /\ mu_sched_get_current_task' # NULL =>
            ~mu_task_is_scheduled(
                queue_task(links',
                           mu_task_set_time(time', mu_sched_get_current_task', clock'),
                           mu_sched_get_current_task'),
                idle_task)]_vars

\* task is neither linked in the main queue nor waiting in the interrupt queue
Unscheduled(task) ==
  ~mu_task_is_scheduled(links, task) /\ ~InSeq(Ring(irq), task)

\* C26: a task that a step calls has been popped: when its callable starts it
\* is unlinked, its status is ACTIVE and no entry for it waits in the
\* interrupt queue.  Only a scheduling call on it, from the foreground or from
\* interrupt level, ends that: until then its status is IDLE when the step
\* returns, and no step calls it.
C26_PoppedBeforeCalled ==
  [][\A task \in Tasks :
       /\ (mu_sched_step /\ current_task' = task) =>
            /\ Unscheduled(task)'
            /\ mu_sched_get_task_status(task)' = MU_SCHED_TASK_STATUS_ACTIVE
       /\ (Unscheduled(task) /\ ~Unscheduled(task)') =>
            FgSchedule(task) \/ IsrCall(task)
       /\ (mu_sched_step /\ Unscheduled(task)) => current_task' # task
       /\ (mu_sched_step_return /\ Unscheduled(task)) =>
            mu_sched_get_task_status(task)' = MU_SCHED_TASK_STATUS_IDLE]_vars

\* the callable of a popped task is running, an interrupt has enqueued another
\* task meanwhile, and the running task is unlinked and ACTIVE
C26_Witness ==
  /\ pc = "task"
  /\ current_task \in Tasks
  /\ Unscheduled(current_task)
  /\ mu_sched_get_task_status(current_task) = MU_SCHED_TASK_STATUS_ACTIVE
  /\ Len(Ring(irq)) = 1

TaskStatus ==
  {MU_SCHED_TASK_STATUS_IDLE, MU_SCHED_TASK_STATUS_SCHEDULED,
   MU_SCHED_TASK_STATUS_RUNNABLE, MU_SCHED_TASK_STATUS_ACTIVE}

\* C27: mu_sched_get_task_status(task) returns one of the four statuses:
\* ACTIVE iff task is the current task; otherwise IDLE iff task is not in the
\* main queue; otherwise RUNNABLE iff its fire-time does not follow the
\* current time and SCHEDULED iff it does.  The call changes nothing in the
\* scheduler.
C27_GetTaskStatus ==
  [][\A task \in TaskAll :
       get_task_status_call(task) =>
         /\ UNCHANGED <<links, time, clock, current_task, irq, pc>>
         /\ ret' \in TaskStatus
         /\ ret' = MU_SCHED_TASK_STATUS_ACTIVE <=> task = current_task
         /\ task # current_task =>
              (ret' = MU_SCHED_TASK_STATUS_IDLE <=> ~InSeq(Queue, task))
         /\ (task # current_task /\ InSeq(Queue, task)) =>
              /\ ret' = MU_SCHED_TASK_STATUS_RUNNABLE <=>
                   ~mu_time_follows(time[task], clock)
              /\ ret' = MU_SCHED_TASK_STATUS_SCHEDULED <=>
                   mu_time_follows(time[task], clock)]_vars

\* the callable of a task that has rescheduled itself has asked for a status
\* and was told ACTIVE
C27_Witness ==
  /\ ret = MU_SCHED_TASK_STATUS_ACTIVE
  /\ pc = "task"
  /\ current_task \in Tasks
  /\ InSeq(Queue, current_task)

\* a foreground call that schedules task at the current time
ScheduleAtNow(task) ==
  \/ mu_sched_task_now(task)
  \/ mu_sched_task_at(task, mu_sched_get_current_time)

\* the step that follows the scheduling call with the clock unchanged finds
\* task at the head of the main queue and calls it
StepRunsHead(L, T, q, n, task) ==
  peek_next_task(drain_irq_task_queue(L, T, q).links) = task =>
    StepCalls(L, T, q, n) = task

\* C28 as stated: right after mu_sched_task_now(T) or mu_sched_task_at(T, now)
\* the status of T is RUNNABLE, and a step at that same time that finds T at
\* the head of the main queue calls T and not the idle task.
C28_NowIsRunnable ==
  [][\A task \in Tasks :
       ScheduleAtNow(task) =>
         /\ mu_sched_get_task_status(task)' = MU_SCHED_TASK_STATUS_RUNNABLE
         /\ StepRunsHead(links', time', irq', clock', task)]_vars

\* C28 amended: the same, except that the status of T is ACTIVE when T is the
\* running task scheduling itself from its callable.
C28_NowIsRunnableUnlessRunning ==
  [][\A task \in Tasks :
       ScheduleAtNow(task) =>
         /\ mu_sched_get_task_status(task)' =
              IF task = current_task THEN MU_SCHED_TASK_STATUS_ACTIVE
                                     ELSE MU_SCHED_TASK_STATUS_RUNNABLE
         /\ StepRunsHead(links', time', irq', clock', task)]_vars

\* between steps a task scheduled at the current time is RUNNABLE at the head
\* of the main queue, in front of a task that is not yet due
C28_Witness ==
  /\ pc = "fg"
  /\ Len(Queue) = 2
  /\ time[Queue[1]] = clock
  /\ mu_sched_get_task_status(Queue[1]) = MU_SCHED_TASK_STATUS_RUNNABLE
  /\ mu_sched_get_task_status(Queue[2]) = MU_SCHED_TASK_STATUS_SCHEDULED
  /\ StepCalls(links, time, irq, clock) = Queue[1]

\* t is numerically smaller than the current time because the timestamp has
\* wrapped, and lies in the future in the modular sense
Wrapped(t) == t < clock /\ mu_time_follows(t, clock)

\* C29: a task that is not the running task and is scheduled with a fire-time
\* numerically smaller than the current time because the timestamp wrapped,
\* but in the future in the modular sense, has status SCHEDULED, is not the
\* task a step at the current time calls, and is behind every queued task
\* whose fire-time is numerically larger and precedes its own (a fire-time
\* before the wrap), the queued fire-times and the current time all lying
\* within less than half the timestamp range.
C29_WrapSafe ==
  [][\A task \in Tasks :
       ( /\ task # current_task
         /\ Wrapped(time'[task])
         /\ FgSchedule(task) ) =>
         /\ mu_sched_get_task_status(task)' = MU_SCHED_TASK_STATUS_SCHEDULED
         /\ StepCalls(links', time', irq', clock') # task
         /\ \A u \in Tasks \ {task} :
              ( /\ InSeq(Queue', u)
                /\ time'[u] > time'[task]
                /\ mu_time_precedes(time'[u], time'[task])
                /\ WithinWindow(FireTimes(Queue', time') \cup {clock}) )
              => Pos(Queue', u) < Pos(Queue', task)]_vars

\* C30: for the fire-time A of the task at the head of the main queue and the
\* time B of a step, whatever they are: A precedes B iff B - A, as a signed
\* value of the timestamp width, is positive; A follows B iff B precedes A; A
\* and B never precede each other; equal times neither precede nor follow
\* each other; the step calls the idle task iff B precedes A.
C30_TimeAlgebra ==
  [][(mu_sched_step /\ Queue # <<>>) =>
       LET A == time[Queue[1]]
           B == clock
       IN  /\ mu_time_precedes(A, B) <=>
                (B - A) % TimeMod \in 1 .. (TimeMod \div 2 - 1)
           /\ mu_time_follows(A, B) <=> mu_time_precedes(B, A)
           /\ ~(mu_time_precedes(A, B) /\ mu_time_precedes(B, A))
           /\ A = B => ~mu_time_precedes(A, B) /\ ~mu_time_follows(A, B)
           /\ current_task' = idle_task <=> mu_time_precedes(B, A)]_vars

\* a step has called the idle task because the head task's fire-time, which
\* is numerically smaller than the step's time, follows it
C30_Witness ==
  /\ pc = "task"
  /\ current_task = idle_task
  /\ Len(Queue) = 1
  /\ time[Queue[1]] < clock
  /\ mu_time_precedes(clock, time[Queue[1]])
  /\ calls = 1

\* C31: mu_sched_reset starts no callable and leaves the main queue empty
\* (task count 0), every task unlinked with status IDLE, the interrupt queue
\* empty and no current task; fire-times and the clock are unchanged.
C31_Reset ==
  [][mu_sched_reset =>
       /\ pc' = pc
       /\ Queue' = <<>>
       /\ mu_sched_task_count(links') = 0
       /\ \A task \in TaskAll :
            /\ links'[task] = Unlinked
            /\ mu_sched_get_task_status(task)' = MU_SCHED_TASK_STATUS_IDLE
       /\ Ring(irq') = <<>>
       /\ mu_sched_get_current_task' = NULL
       /\ clock' = clock
       /\ time' = time]_vars

\* a callable has called mu_sched_reset while tasks were queued in both
\* queues: the callable is still running, there is no current task and both
\* queues are empty, the interrupt queue with its indices back at zero
C31_Witness ==
  /\ pc = "task"
  /\ current_task = NULL
  /\ Queue = <<>>
  /\ irq.putr = 0 /\ irq.getr = 0
  /\ irq.store[1] # NULL
  /\ \E task \in Tasks : time[task] = mu_time_offset(ClockStart, 2)

\* C32: the mu_sched_step that follows mu_sched_reset with no scheduling call
\* in between calls the idle task and no other task, and leaves the main
\* queue and the interrupt queue empty.
C32_ResetThenStep ==
  [][mu_sched_reset =>
       LET d == drain_irq_task_queue(links', time', irq')
           r == get_runnable_task(d.links, time', clock')
       IN  /\ r.task = idle_task
           /\ StepCalls(links', time', irq', clock') \notin Tasks
           /\ Members(r.links, task_list) = <<>>
           /\ Ring(d.irq) = <<>>]_vars

\* a step is calling the idle task with both queues empty, after a
\* mu_sched_reset that emptied an interrupt queue holding two entries
C32_Witness ==
  /\ pc = "task"
  /\ current_task = idle_task
  /\ Queue = <<>>
  /\ irq.putr = 0 /\ irq.getr = 0
  /\ irq.store[1] # NULL
  /\ irq.store[2] = NULL

\* a is an initial part of b
IsPrefix(a, b) == Len(a) <= Len(b) /\ \A i \in 1 .. Len(a) : a[i] = b[i]

\* what the gets have returned is an initial part of what the puts have
\* delivered, and the item a get has read is the next one of them
RingInOrder ==
  /\ IsPrefix(spsc.got_log, spsc.put_log)
  /\ spsc.get_pc = "publish" =>
       /\ Len(spsc.got_log) < Len(spsc.put_log)
       /\ spsc.get_item = spsc.put_log[Len(spsc.got_log) + 1]

\* C33: with the steps of one producer and one consumer interleaved in any
\* way, the items the gets return are the items whose put succeeded, each
\* once and in put order; a put fails only with MU_IRQ_TASK_QUEUE_SIZE - 1
\* items outstanding, and a get fails only when every item put has been
\* returned.
C33_RingSafe ==
  [][/\ RingInOrder'
     /\ ((\E item \in 1 .. MaxCalls : put_check(item)) /\ spsc'.put_ret # MU_SCHED_ERR_NONE) =>
          Len(spsc.put_log) - Len(spsc.got_log) = MU_IRQ_TASK_QUEUE_SIZE - 1
     /\ (get_check /\ spsc'.get_ret # MU_SPSC_ERR_NONE) =>
          spsc.got_log = spsc.put_log]_vars

\* a put has failed, the ring has wrapped, and a get that has read its item
\* and a put that has written its slot are both about to publish their index
C33_Witness ==
  /\ spsc.put_pc = "publish"
  /\ spsc.get_pc = "publish"
  /\ Len(spsc.got_log) = MU_IRQ_TASK_QUEUE_SIZE
  /\ Len(spsc.put_log) + 1 < spsc.puts

\* a user function for mu_sched_traverse: returns the task it is given when
\* that task is target, and NULL for every other task
FindTask(target) == [task \in TaskAll |-> IF task = target THEN task ELSE NULL]

\* C34: mu_sched_traverse(user_fn, arg) returns the first non-null value
\* user_fn returns on the tasks of the main queue taken in queue order, and
\* NULL only if user_fn returns NULL on all of them: with a user function that
\* returns a task for that task only, it returns the task iff the task is in
\* the main queue.
C34_Traverse ==
  \A target \in Tasks :
    mu_sched_traverse(FindTask(target), NULL) =
      IF InSeq(Queue, target) THEN target ELSE NULL

\* C35: mu_sched_get_next_task returns the head of the main queue, which is
\* the queued task with the earliest fire-time (the queued fire-times lying
\* within less than half the timestamp range), and NULL iff the main queue is
\* empty; mu_sched_is_empty iff mu_sched_task_count is 0 iff
\* mu_sched_get_next_task is NULL; mu_sched_task_count is the number of
\* queued tasks.
C35_Observers ==
  /\ mu_sched_get_next_task(links) = IF Queue = <<>> THEN NULL ELSE Queue[1]
  /\ mu_sched_task_count(links) = Len(Queue)
  /\ mu_sched_is_empty(links) <=> mu_sched_task_count(links) = 0
  /\ mu_sched_is_empty(links) <=> mu_sched_get_next_task(links) = NULL
  /\ (Queue # <<>> /\ WithinWindow(FireTimes(Queue, time))) =>
       \A i \in 1 .. Len(Queue) :
         ~mu_time_follows(time[mu_sched_get_next_task(links)], time[Queue[i]])

\* no element occurs twice in q
NoDuplicates(q) == \A i, j \in 1 .. Len(q) : q[i] = q[j] => i = j

\* C36: the while loop of mu_sched_step ends: with the interrupts putting
\* finitely many items while it runs, mu_spsc_get eventually finds the ring
\* empty; the ring never holds more than MU_IRQ_TASK_QUEUE_SIZE - 1 items, so
\* that the loop makes no more iterations than that when no interrupt puts an
\* item meanwhile; and the scan of find_insertion_point made for each item
\* examines tasks of the main queue only, none of them twice, and stops at a
\* task or at the list head.
C36_StepTerminates ==
  /\ <>(spsc.get_ret = MU_SPSC_ERR_EMPTY)
  /\ [](Len(Ring(irq)) <= MU_IRQ_TASK_QUEUE_SIZE - 1)
  /\ [][get_publish =>
          LET task == ItemTask(spsc.get_item)
              L1   == mu_dlist_unlink(links, mu_task_link(task))
              path == scan_insertion_path(L1, time, task_list,
                                          mu_dlist_next(L1, task_list),
                                          time[task], 2 * Cardinality(Node))
          IN  /\ NoDuplicates(path)
              /\ \A i \in 1 .. Len(path) : InSeq(Members(L1, task_list), path[i])
              /\ find_insertion_point(L1, time, task_list, time[task]) \in
                   {task_list} \cup {path[i] : i \in 1 .. Len(path)}]_vars

\* the loop has found the ring empty after it transferred items that wrapped
\* the ring, and the three tasks are in the main queue
C36_Witness ==
  /\ spsc.get_ret = MU_SPSC_ERR_EMPTY
  /\ spsc.get_pc = "idle"
  /\ Len(spsc.got_log) > MU_IRQ_TASK_QUEUE_SIZE
  /\ Len(Queue) = 3

\* the list with head list is a circular list: following next from the head
\* visits each member once and comes back to the head, the next and prev
\* fields of the head and of every member agree, and the head of an empty
\* list points to itself both ways
WellFormed(L, list) ==
  LET m == Members(L, list)
      last == IF m = <<>> THEN list ELSE m[Len(m)]
  IN  /\ NoDuplicates(m)
      /\ L[last].next = list
      /\ \A e \in {list} \cup {m[i] : i \in 1 .. Len(m)} :
           /\ L[e].next # NULL /\ L[e].prev # NULL
           /\ L[L[e].next].prev = e
           /\ L[L[e].prev].next = e
      /\ m = <<>> => L[list] = [prev |-> list, next |-> list]

C38_DrainUsesTaskTime ==
  [][mu_sched_step =>
       /\ time' = time
       /\ \A task \in Tasks :
            InSeq(Ring(irq), task) =>
              \/ current_task' = task
              \/ /\ Occurrences(Queue', task) = 1
                 /\ WithinWindow(FireTimes(Queue', time) \cup {clock}) =>
                      \A i \in 1 .. Len(Queue') :
                        i < Pos(Queue', task) =>
                          ~mu_time_follows(time[Queue'[i]], time[task])]_vars

\* a step has drained two entries of B: B is in the main queue once, with the
\* fire-time of two ticks ahead that it holds, behind A, which is due one tick
\* ahead
C38_Witness ==
  /\ pc = "task"
  /\ irq.store[0] = "B" /\ irq.store[1] = "B"
  /\ irq.getr = 2 /\ irq.putr = 2
  /\ Queue = <<"A", "B">>
  /\ time["A"] = mu_time_offset(clock, 1)
  /\ time["B"] = mu_time_offset(clock, 2)

\* the number of set bits among the first bit_count bits of a store
SetBits(bit_count, store) ==
  Cardinality({i \in 0 .. (bit_count - 1) :
                 ShiftRight(store[i \div 8], i % 8) % 2 = 1})

\* C40: for every bit vector and every bit_count, the count of zeros and the
\* count of ones add up to bit_count, the count of ones being the number of set
\* bits among the first bit_count bits of the store.
C40_CountsAddUp ==
  [][bvec_count =>
       /\ bvec'.ones = SetBits(bvec.bit_count, bvec.store)
       /\ bvec'.zeros + bvec'.ones = bvec.bit_count]_vars

\* C39: a task that is in the main queue, that is neither removed nor
\* rescheduled, whose fire-time the clock reaches, is eventually invoked when
\* mu_sched_step keeps being called and the scheduling calls on other tasks
\* are finitely many, apart from a task that calls mu_sched_reschedule_now
\* every time it runs.
C39_Progress == <>(pc = "task" /\ current_task = waiting_task)

====
